---- MODULE Spec2Model ----
(***************************************************************************)
(* A model of src/screen.py: the valuation screener's filter chain         *)
(* (filter_stocks), its batched ROE enrichment, the top-3 reporter         *)
(* (show_top3) and the control flow of main.                               *)
(*                                                                         *)
(* Data conventions.                                                       *)
(*  - A nullable cell is a sequence: <<>> is NaN/None, <<v>> holds v.      *)
(*  - pe_ttm, pb, roe, dv_ratio are integers; turnover_rate is held in     *)
(*    tenths of a percent, so the literal 0.5 of the source is 5.          *)
(*  - A string is a sequence of characters.  The Han characters of the     *)
(*    industry names are written by their pinyin ("yin","hang" = 银行).    *)
(*  - A date string 'YYYYMMDD' is the sequence of its eight digits.        *)
(*  - A frame is [cols, rows]: cols says which ROE columns the frame has   *)
(*    ("none", "roe", "roe_obj" for a column of None set by the except     *)
(*    branch, or "xy" for roe_x/roe_y after a suffixing merge).            *)
(***************************************************************************)
EXTENDS Integers, Sequences, FiniteSets, TLC

VARIABLES
    mainpc,    \* control point of main ("none": the function is called directly)
    pc,        \* control point of the running filter_stocks / show_top3 call
    now,       \* datetime.datetime.now(), as days since 1970-01-01
    df,        \* the frame passed to filter_stocks / show_top3
    crit,      \* keyword arguments of filter_stocks
    provider,  \* the market-data provider behind pro.fina_indicator
    result,    \* local `result` of filter_stocks / `df` of show_top3
    i,         \* loop variable of the batch loop (0-based offset)
    all_roe,   \* local `all_roe`: the list of per-batch frames
    out,       \* what the call returned, or the exception it raised
    first,     \* the return value of the first application (for re-application)
    round,     \* 1: first application, 2: filter_stocks applied to its own output
    slices,    \* the five top-3 slices printed by show_top3
    env,       \* main: argv, environment and ~/.aj-skills/.env
    token,     \* main: the resolved token
    log,       \* main: the stages executed so far, in order
    exitcode   \* main: process exit status (-1 while running)

vars == <<mainpc, pc, now, df, crit, provider, result, i, all_roe, out, first, round,
          slices, env, token, log, exitcode>>

----------------------------------------------------------------------------
(* Bounds of the model *)

\* rows of a dataset handed to filter_stocks in SpecFilter
MaxRows == 2

----------------------------------------------------------------------------
(* Nullable cells *)

Null == <<>>
Some(v) == <<v>>
IsNull(c) == c = <<>>
Val(c) == c[1]

\* NaN comparisons are False: (col > x), (col < x) on a float column
Gt(c, x) == ~IsNull(c) /\ Val(c) > x
Lt(c, x) == ~IsNull(c) /\ Val(c) < x

\* Series.fillna(0)
FillNa0(c) == IF IsNull(c) THEN 0 ELSE Val(c)

----------------------------------------------------------------------------
(* Strings *)

\* Python `pat in s` for one literal pattern
HasSubstring(s, pat) ==
    \E k \in 0..(Len(s) - Len(pat)) :
        \A j \in 1..Len(pat) : s[k + j] = pat[j]

\* Series.str.contains(regex, na=False) where the regex is an alternation
\* of literals: a null cell gives False
StrContains(cell, alternatives) ==
    /\ ~IsNull(cell)
    /\ \E pat \in alternatives : HasSubstring(Val(cell), pat)

PatBank       == { <<"yin", "hang">> }                                \* '银行'
PatBroker     == { <<"zheng", "quan">>, <<"quan", "shang">> }         \* '证券|券商'
PatInsurance  == { <<"bao", "xian">> }                                \* '保险'
PatRealEstate == { <<"fang", "di", "chan">>, <<"di", "chan">> }       \* '房地产|地产'

\* Python str < str: lexicographic by code point, a proper prefix is smaller
StrLess(s, t) ==
    \E k \in 1..(Len(t)) :
        /\ k <= Len(s) + 1
        /\ \A j \in 1..(k - 1) : s[j] = t[j]
        /\ (k = Len(s) + 1 \/ s[k] < t[k])

\* (df['list_date'] < one_year_ago) on an object column: a null cell gives False
StrLt(cell, t) == ~IsNull(cell) /\ StrLess(Val(cell), t)

----------------------------------------------------------------------------
(* Dates *)

\* the proleptic Gregorian calendar: day number (days since 1970-01-01) to
\* <<year, month, day>>
CivilFromDays(z0) ==
    LET z   == z0 + 719468
        era == z \div 146097
        doe == z - era * 146097
        yoe == (doe - doe \div 1460 + doe \div 36524 - doe \div 146096) \div 365
        doy == doe - (365 * yoe + yoe \div 4 - yoe \div 100)
        mp  == (5 * doy + 2) \div 153
        d   == doy - (153 * mp + 2) \div 5 + 1
        m   == IF mp < 10 THEN mp + 3 ELSE mp - 9
        y   == yoe + era * 400 + (IF m <= 2 THEN 1 ELSE 0)
    IN  <<y, m, d>>

\* strftime('%Y%m%d'): eight digits, zero padded
StrfYmd(day) ==
    LET c == CivilFromDays(day)
    IN  << (c[1] \div 1000) % 10, (c[1] \div 100) % 10, (c[1] \div 10) % 10, c[1] % 10,
           (c[2] \div 10) % 10, c[2] % 10,
           (c[3] \div 10) % 10, c[3] % 10 >>

\* (datetime.datetime.now() - datetime.timedelta(days=365)).strftime('%Y%m%d')
OneYearAgo(today) == StrfYmd(today - 365)

----------------------------------------------------------------------------
(* Frames *)

\* the set of elements of a sequence
SeqSet(s) == { s[k] : k \in 1..Len(s) }

Codes(rows) == [k \in 1..Len(rows) |-> rows[k].ts_code]

EmptyFrame == [cols |-> "none", rows |-> <<>>]

StrLeq(s, t) == s = t \/ StrLess(s, t)

\* <= on the values of a column: numbers, or strings for 'end_date'
ValueLeq(col, a, b) == IF col = "end_date" THEN StrLeq(a, b) ELSE a <= b

\* DataFrame.sort_values(col): kind='quicksort' is not a stable sort (numpy's
\* introsort permutes equal keys once an array is longer than its
\* insertion-sort cut-off), so rows with equal keys may come out in any
\* order; NaN keys are placed last, in frame order.  The value is the set of
\* possible results.
SortValues(rows, col, ascending) ==
    LET n == Len(rows)
        Before(a, b) ==     \* row a may precede row b
            \/ IsNull(b[col])
            \/ /\ ~IsNull(a[col])
               /\ ~IsNull(b[col])
               /\ IF ascending THEN ValueLeq(col, Val(a[col]), Val(b[col]))
                               ELSE ValueLeq(col, Val(b[col]), Val(a[col]))
        \* the orders in which the rows with indices in S may come out
        Orders[S \in SUBSET (1..n)] ==
            IF S = {} THEN { <<>> }
            ELSE UNION { { <<k>> \o t : t \in Orders[S \ {k}] } :
                           k \in { m \in S : \A j \in S :
                                     /\ Before(rows[m], rows[j])
                                     /\ IsNull(rows[m][col]) => m <= j } }
    IN  { [k \in 1..n |-> rows[p[k]]] : p \in Orders[1..n] }

----------------------------------------------------------------------------
(* filter_stocks, lines 105-134: the predicate chain *)

NotBank(r)       == ~StrContains(r.industry, PatBank)
NotBroker(r)     == ~StrContains(r.industry, PatBroker)
NotInsurance(r)  == ~StrContains(r.industry, PatInsurance)
NotRealEstate(r) == ~StrContains(r.industry, PatRealEstate)

\* the boolean mask of lines 131-133
BaseMask(r, pe_max, pb_max, turnover_min) ==
    /\ Gt(r.pe_ttm, 0) /\ Lt(r.pe_ttm, pe_max)
    /\ Gt(r.pb, 0) /\ Lt(r.pb, pb_max)
    /\ Gt(r.turnover_rate, turnover_min)

\* lines 108-134: each enabled stage narrows df in turn
FilterChain(rows, c, today) ==
    LET s1 == IF c.no_bank THEN SelectSeq(rows, NotBank) ELSE rows
        s2 == IF c.no_broker THEN SelectSeq(s1, NotBroker) ELSE s1
        s3 == IF c.no_insurance THEN SelectSeq(s2, NotInsurance) ELSE s2
        s4 == IF c.no_real_estate THEN SelectSeq(s3, NotRealEstate) ELSE s3
        one_year_ago == OneYearAgo(today)
        IsOld(r) == StrLt(r.list_date, one_year_ago)
        s5 == IF c.no_new THEN SelectSeq(s4, IsOld) ELSE s4
        Passes(r) == BaseMask(r, c.pe_max, c.pb_max, c.turnover_min)
    IN  SelectSeq(s5, Passes)

----------------------------------------------------------------------------
(* The provider behind pro.fina_indicator *)

\* pro.fina_indicator(ts_code=','.join(batch), fields='ts_code,roe,end_date').
\* The provider holds a table of FundamentalMetric records and answers a call
\* with the records of the requested codes, in table order; it also returns
\* the records of the codes in p.leak whatever was asked, and it raises when a
\* code of p.failing is among those asked.  The answer is a function of the
\* batch, so the same call gives the same answer.
FinaIndicator(p, batch) ==
    IF SeqSet(batch) \cap p.failing # {}
    THEN [raised |-> TRUE, records |-> <<>>]
    ELSE LET Wanted(rec) == rec.ts_code \in (SeqSet(batch) \cup p.leak)
         IN  [raised |-> FALSE, records |-> SelectSeq(p.table, Wanted)]

\* DataFrame.drop_duplicates('ts_code'): keep the first record of each code
DropDuplicates(recs) ==
    LET IsFirst(k) == \A j \in 1..(k - 1) : recs[j].ts_code # recs[k].ts_code
        F[k \in 0..Len(recs)] ==
            IF k = 0 THEN <<>>
            ELSE IF IsFirst(k) THEN Append(F[k - 1], recs[k]) ELSE F[k - 1]
    IN  F[Len(recs)]

\* roe_df[['ts_code', 'roe']]
TakeCodeRoe(recs) ==
    [k \in 1..Len(recs) |-> [ts_code |-> recs[k].ts_code, roe |-> recs[k].roe]]

\* lines 150-151 / 196-197: the possible per-batch frames
\*   roe_df.sort_values('end_date', ascending=False).drop_duplicates('ts_code')
LatestPerCode(recs) ==
    { TakeCodeRoe(DropDuplicates(s)) : s \in SortValues(recs, "end_date", FALSE) }

\* pd.concat(all_roe, ignore_index=True)
RECURSIVE Concat(_)
Concat(frames) ==
    IF frames = <<>> THEN <<>> ELSE Head(frames) \o Concat(Tail(frames))

HasRoe(cols) == cols \in {"roe", "roe_obj"}

\* result.merge(roe_final, on='ts_code', how='left'): every left row, in order,
\* once per matching right row (in right order), or once with NaN when none
\* matches.  A left frame that already has a 'roe' column gets roe_x / roe_y.
MergeRows(rows, right, suffixed) ==
    LET Joined(r, v) ==
            IF suffixed
            THEN [r EXCEPT !.roe = Null, !.roe_x = r.roe, !.roe_y = v]
            ELSE [r EXCEPT !.roe = v]
        Matches(r) ==
            LET Same(rec) == rec.ts_code = r.ts_code
                m == SelectSeq(right, Same)
            IN  IF m = <<>> THEN << Joined(r, Null) >>
                ELSE [k \in 1..Len(m) |-> Joined(r, m[k].roe)]
        F[k \in 0..Len(rows)] ==
            IF k = 0 THEN <<>> ELSE F[k - 1] \o Matches(rows[k])
    IN  F[Len(rows)]

Merge(frame, right) ==
    [cols |-> IF HasRoe(frame.cols) THEN "xy" ELSE "roe",
     rows |-> MergeRows(frame.rows, right, HasRoe(frame.cols))]

\* codes[i:i+100]
Slice(s, from, size) ==
    SubSeq(s, from + 1, IF from + size < Len(s) THEN from + size ELSE Len(s))

----------------------------------------------------------------------------
(* filter_stocks *)

\* the batch size: the literal 100 of range(0, len(codes), 100) and
\* codes[i:i+100], scaled down so that a small dataset spans several batches
BatchSize == 2

Returned(frame) == [kind |-> "return", frame |-> frame, exc |-> "none"]
Raised(exc)     == [kind |-> "raise", frame |-> EmptyFrame, exc |-> exc]
NoOut           == [kind |-> "none", frame |-> EmptyFrame, exc |-> "none"]

Logged(l, stage) == IF stage \in SeqSet(l) THEN l ELSE Append(l, stage)

NeedsEnrichment(c) == c.roe_min > 0 \/ c.dividend_min > 0

\* lines 105-137: the empty-input return, the predicate chain, and the
\* decision whether ROE data is fetched
FsEnter ==
    /\ pc = "fs_call"
    /\ log' = Logged(log, "filter")
    /\ IF Len(df.rows) = 0
       THEN /\ out' = Returned(EmptyFrame)          \* return pd.DataFrame()
            /\ pc' = "fs_done"
            /\ UNCHANGED <<result, i, all_roe>>
       ELSE /\ result' = [cols |-> df.cols, rows |-> FilterChain(df.rows, crit, now)]
            /\ i' = 0
            /\ all_roe' = <<>>
            /\ pc' = IF NeedsEnrichment(crit) THEN "fs_batch" ELSE "fs_sort"
            /\ out' = NoOut
    /\ UNCHANGED <<mainpc, now, df, crit, provider, first, round, slices, env, token, exitcode>>

\* lines 145-151, one iteration of the loop inside the try of line 142; an
\* exception leaves the loop for the handler of lines 157-159, which sets
\* the whole 'roe' column to None
FsFetchBatch ==
    /\ pc = "fs_batch"
    /\ i < Len(result.rows)
    /\ log' = Logged(log, "enrich")
    /\ LET batch == Slice(Codes(result.rows), i, BatchSize)
           roe_df == FinaIndicator(provider, batch)
       IN  IF roe_df.raised
           THEN /\ result' = [cols |-> "roe_obj",
                              rows |-> [k \in 1..Len(result.rows) |->
                                          [result.rows[k] EXCEPT !.roe = Null]]]
                /\ pc' = "fs_threshold"
                /\ UNCHANGED <<i, all_roe>>
           ELSE /\ IF Len(roe_df.records) > 0
                   THEN \E latest \in LatestPerCode(roe_df.records) :
                            all_roe' = Append(all_roe, latest)
                   ELSE UNCHANGED all_roe
                /\ i' = i + BatchSize
                /\ UNCHANGED <<result, pc>>
    /\ UNCHANGED <<mainpc, now, df, crit, provider, out, first, round, slices, env, token, exitcode>>

\* lines 153-156: after the last batch, concatenate and left-join
FsMerge ==
    /\ pc = "fs_batch"
    /\ i >= Len(result.rows)
    /\ log' = Logged(log, "enrich")
    /\ result' = IF all_roe # <<>> THEN Merge(result, Concat(all_roe)) ELSE result
    /\ pc' = "fs_threshold"
    /\ UNCHANGED <<mainpc, now, df, crit, provider, i, all_roe, out, first, round, slices,
                   env, token, exitcode>>

RoeAbove(r, roe_min) == FillNa0(r.roe) > roe_min
DividendAbove(r, dividend_min) == FillNa0(r.dv_ratio) > dividend_min

\* lines 161-171: result['roe'] raises KeyError when the frame has no 'roe'
\* column (nothing was merged, or the merge suffixed it to roe_x / roe_y)
FsThreshold ==
    /\ pc = "fs_threshold"
    /\ IF crit.roe_min > 0 /\ ~HasRoe(result.cols)
       THEN /\ out' = Raised("KeyError")
            /\ pc' = "fs_done"
            /\ UNCHANGED result
       ELSE /\ LET KeepRoe(r) == RoeAbove(r, crit.roe_min)
                   KeepDiv(r) == DividendAbove(r, crit.dividend_min)
                   a == IF crit.roe_min > 0
                        THEN SelectSeq(result.rows, KeepRoe) ELSE result.rows
                   b == IF crit.dividend_min > 0 THEN SelectSeq(a, KeepDiv) ELSE a
               IN  result' = [result EXCEPT !.rows = b]
            /\ pc' = "fs_sort"
            /\ UNCHANGED out
    /\ UNCHANGED <<mainpc, now, df, crit, provider, i, all_roe, first, round, slices,
                   env, token, log, exitcode>>

\* lines 173-176: result.sort_values('pe_ttm'), then return
FsSort ==
    /\ pc = "fs_sort"
    /\ \E sorted \in SortValues(result.rows, "pe_ttm", TRUE) :
          /\ result' = [result EXCEPT !.rows = sorted]
          /\ out' = Returned([result EXCEPT !.rows = sorted])
    /\ pc' = "fs_done"
    /\ UNCHANGED <<mainpc, now, df, crit, provider, i, all_roe, first, round, slices,
                   env, token, log, exitcode>>

\* filter_stocks(filter_stocks(df, ...), ...): the returned frame is passed
\* back in with the same keyword arguments
Reapply ==
    /\ mainpc = "none"
    /\ pc = "fs_done"
    /\ round = 1
    /\ out.kind = "return"
    /\ first' = out
    /\ df' = out.frame
    /\ round' = 2
    /\ pc' = "fs_call"
    /\ out' = NoOut
    /\ UNCHANGED <<mainpc, now, crit, provider, result, i, all_roe, slices, env, token,
                   log, exitcode>>

----------------------------------------------------------------------------
(* show_top3 *)

\* the 3 of nlargest(3, ...) and nsmallest(3, ...)
TopN == 3

\* the literals of the mask of lines 206-208: PE < 20, PB < 3, turnover > 0.5
TopPeMax == 20
TopPbMax == 3
TopTurnoverMin == 5

\* s.head(n) / s.iloc[:n]
Take(s, n) == SubSeq(s, 1, IF n < Len(s) THEN n ELSE Len(s))

\* a selection that leaves the rows with a NaN key out
SelectNDropNa(rows, col, n, largest) ==
    LET HasKey(r) == ~IsNull(r[col])
    IN  { Take(sorted, n) : sorted \in SortValues(SelectSeq(rows, HasKey), col, ~largest) }

\* DataFrame.nlargest(n, col) / nsmallest(n, col), keep='first' (pandas 2.x,
\* core/methods/selectn.py).  With n >= len(frame) the frame is sorted with
\* sort_values and cut; otherwise the n best non-null rows are taken with a
\* stable (mergesort) order, ties going to the earlier row, and NaN rows
\* follow in frame order while fewer than n rows are non-null.  The value is
\* the set of possible results.
SelectN(rows, col, n, largest) ==
    LET nonnull == { k \in 1..Len(rows) : ~IsNull(rows[k][col]) }
        NoKey(r) == IsNull(r[col])
        Better(a, b) == IF largest THEN Val(a[col]) > Val(b[col])
                                   ELSE Val(a[col]) < Val(b[col])
        Rank(k) == 1 + Cardinality({ j \in nonnull :
                        \/ Better(rows[j], rows[k])
                        \/ (Val(rows[j][col]) = Val(rows[k][col]) /\ j < k) })
        ordered == [r \in 1..Cardinality(nonnull) |->
                      rows[CHOOSE k \in nonnull : Rank(k) = r]]
    IN  IF n >= Len(rows)
        THEN { Take(sorted, n) : sorted \in SortValues(rows, col, ~largest) }
        ELSE { Take(Take(ordered, n) \o SelectSeq(rows, NoKey), n) }

\* df['score'] = df['roe'].fillna(0) + df['dv_ratio'].fillna(0)
WithScore(r) ==
    [f \in DOMAIN r \cup {"score"} |->
        IF f = "score" THEN Some(FillNa0(r.roe) + FillNa0(r.dv_ratio)) ELSE r[f]]

NoSlices == [roe |-> <<>>, div |-> <<>>, pe |-> <<>>, pb |-> <<>>, combo |-> <<>>]

\* lines 181-191: "no data" return, else the batch loop starts
T3Enter ==
    /\ pc = "t3_call"
    /\ log' = Logged(log, "report")
    /\ IF Len(df.rows) = 0
       THEN /\ out' = Returned(EmptyFrame)
            /\ pc' = "t3_done"
            /\ UNCHANGED <<result, i, all_roe>>
       ELSE /\ result' = df
            /\ i' = 0
            /\ all_roe' = <<>>
            /\ pc' = "t3_batch"
            /\ out' = NoOut
    /\ UNCHANGED <<mainpc, now, df, crit, provider, first, round, slices, env, token, exitcode>>

\* lines 191-199, one iteration: the try is inside the loop and an exception
\* is swallowed, the loop goes on with the next batch
T3FetchBatch ==
    /\ pc = "t3_batch"
    /\ i < Len(df.rows)
    /\ log' = Logged(log, "enrich")
    /\ LET batch == Slice(Codes(df.rows), i, BatchSize)
           roe_df == FinaIndicator(provider, batch)
       IN  IF ~roe_df.raised /\ Len(roe_df.records) > 0
           THEN \E latest \in LatestPerCode(roe_df.records) :
                    all_roe' = Append(all_roe, latest)
           ELSE UNCHANGED all_roe
    /\ i' = i + BatchSize
    /\ UNCHANGED <<mainpc, pc, now, df, crit, provider, result, out, first, round, slices,
                   env, token, exitcode>>

\* lines 201-243: the join, the base mask and the five slices; df['roe'] at
\* line 215 raises KeyError when nothing was merged
T3Report ==
    /\ pc = "t3_batch"
    /\ i >= Len(df.rows)
    /\ LET merged == IF all_roe # <<>> THEN Merge(result, Concat(all_roe)) ELSE result
           Passes(r) == BaseMask(r, TopPeMax, TopPbMax, TopTurnoverMin)
           base == SelectSeq(merged.rows, Passes)
           HasRoeValue(r) == ~IsNull(r.roe)
           scored == [k \in 1..Len(base) |-> WithScore(base[k])]
       IN  /\ result' = [cols |-> merged.cols, rows |-> base]
           /\ IF ~HasRoe(merged.cols)
              THEN /\ out' = Raised("KeyError")
                   /\ UNCHANGED slices
              ELSE /\ out' = Returned(EmptyFrame)
                   /\ \E top_roe \in SelectN(SelectSeq(base, HasRoeValue), "roe", TopN, TRUE),
                         top_div \in SelectN(base, "dv_ratio", TopN, TRUE),
                         top_pe \in SelectN(base, "pe_ttm", TopN, FALSE),
                         top_pb \in SelectN(base, "pb", TopN, FALSE),
                         top_combo \in SelectN(scored, "score", TopN, TRUE) :
                        slices' = [roe |-> top_roe, div |-> top_div, pe |-> top_pe,
                                   pb |-> top_pb, combo |-> top_combo]
    /\ pc' = "t3_done"
    /\ UNCHANGED <<mainpc, now, df, crit, provider, i, all_roe, first, round, env, token,
                   log, exitcode>>

----------------------------------------------------------------------------
(* Inputs *)

\* industry names: 银行, 证券, 保险, 全国地产, 软件服务
Industries ==
    { Null,
      Some(<<"yin", "hang">>),
      Some(<<"zheng", "quan">>),
      Some(<<"bao", "xian">>),
      Some(<<"quan", "guo", "di", "chan">>),
      Some(<<"ruan", "jian", "fu", "wu">>) }

Software == Some(<<"ruan", "jian", "fu", "wu">>)

\* run dates: 2025-01-01 and 2025-01-02 (one year ago: 2024-01-02, 2024-01-03)
Nows == {20089, 20090}

\* listing dates 2023-12-31 .. 2024-01-03, as the provider's 'YYYYMMDD' strings
ListDays == 19722..19725
ListDates == {Null} \cup { Some(StrfYmd(d)) : d \in ListDays }

Shape(industry, list_date, pe, pb, turnover, dv) ==
    [industry |-> industry, list_date |-> list_date, pe_ttm |-> pe, pb |-> pb,
     turnover_rate |-> turnover, dv_ratio |-> dv]

\* a snapshot row as fetch_data builds it: no ROE column yet
Row(code, s) ==
    [ts_code |-> code, industry |-> s.industry, list_date |-> s.list_date,
     pe_ttm |-> s.pe_ttm, pb |-> s.pb, turnover_rate |-> s.turnover_rate,
     dv_ratio |-> s.dv_ratio, roe |-> Null, roe_x |-> Null, roe_y |-> Null]

\* a dataset: row k carries the identifier k, so identifiers are unique
Dataset(shapes) ==
    [cols |-> "none", rows |-> [k \in 1..Len(shapes) |-> Row(k, shapes[k])]]

Datasets(S, lengths) == UNION { { Dataset(s) : s \in [1..n -> S] } : n \in lengths }

Criteria(pe_max, pb_max, turnover_min, roe_min, dividend_min, flags) ==
    [pe_max |-> pe_max, pb_max |-> pb_max, turnover_min |-> turnover_min,
     roe_min |-> roe_min, dividend_min |-> dividend_min,
     no_bank |-> flags[1], no_broker |-> flags[2], no_insurance |-> flags[3],
     no_real_estate |-> flags[4], no_new |-> flags[5]]

NoProvider == [table |-> <<>>, failing |-> {}, leak |-> {}]
NoFile == [exists |-> FALSE, readable |-> FALSE, text |-> <<>>]
NoMarket == [down |-> FALSE, recent_open |-> TRUE, history_open |-> TRUE, rows |-> <<>>]
NoEnv == [arg |-> <<>>, environ |-> Null, file |-> NoFile, top3 |-> FALSE,
          include_all |-> FALSE, save |-> FALSE, github |-> "unset", limit |-> 0,
          pe |-> 0, pb |-> 0, turnover |-> 0, roe |-> 0, dividend |-> 0,
          market |-> NoMarket]

\* the call filter_stocks(df, token, **crit) made directly
InitCall(entry, d, c, today, p) ==
    /\ mainpc = "none"
    /\ pc = entry
    /\ now = today
    /\ df = d
    /\ crit = c
    /\ provider = p
    /\ result = EmptyFrame
    /\ i = 0
    /\ all_roe = <<>>
    /\ out = NoOut
    /\ first = NoOut
    /\ round = 1
    /\ slices = NoSlices
    /\ env = NoEnv
    /\ token = <<>>
    /\ log = <<>>
    /\ exitcode = -1

----------------------------------------------------------------------------
(* SpecFilter: filter_stocks without ROE / dividend threshold *)

\* one-row datasets take every combination of cell values
RichShapes ==
    { Shape(ind, ld, pe, pb, t, Null) :
        ind \in Industries, ld \in ListDates,
        pe \in {Null, Some(0), Some(1), Some(2)},
        pb \in {Null, Some(0), Some(1), Some(2)},
        t \in {Null, Some(5), Some(6)} }

\* longer datasets are built from rows that differ in industry and P/E
PlainShapes ==
    { Shape(ind, Some(StrfYmd(19722)), pe, Some(1), Some(6), Null) :
        ind \in {Software, Some(<<"yin", "hang">>)},
        pe \in {Some(0), Some(1), Some(2)} }

FilterDatasets ==
    Datasets(RichShapes, {0, 1}) \cup Datasets(PlainShapes, 2..MaxRows)

FilterCriteria ==
    { Criteria(pe_max, 2, 5, 0, 0, flags) :
        pe_max \in {2, 3}, flags \in [1..5 -> BOOLEAN] }

InitFilter ==
    \E d \in FilterDatasets, c \in FilterCriteria, today \in Nows :
        InitCall("fs_call", d, c, today, NoProvider)

NextFilter == FsEnter \/ FsSort \/ Reapply

SpecFilter == InitFilter /\ [][NextFilter]_vars

----------------------------------------------------------------------------
(* Properties of the predicate chain and the ranking (SpecFilter) *)

\* 'YYYYMMDD' back to a day number, by the inverse calendar computation
DaysFromCivil(y0, m, d) ==
    LET y   == IF m <= 2 THEN y0 - 1 ELSE y0
        era == y \div 400
        yoe == y - era * 400
        doy == (153 * (IF m > 2 THEN m - 3 ELSE m + 9) + 2) \div 5 + d - 1
        doe == yoe * 365 + yoe \div 4 - yoe \div 100 + doy
    IN  era * 146097 + doe - 719468

ParseYmd(s) ==
    DaysFromCivil(s[1] * 1000 + s[2] * 100 + s[3] * 10 + s[4],
                  s[5] * 10 + s[6], s[7] * 10 + s[8])

\* the listing date is known and lies strictly before (run date - 365 days)
ListedBeforeCutoff(r) ==
    ~IsNull(r.list_date) /\ ParseYmd(Val(r.list_date)) < now - 365

IndustryHas(r, pat) == ~IsNull(r.industry) /\ HasSubstring(Val(r.industry), pat)

\* the predicates named by the criteria, apart from recency, on one row
PassesListed(r, c) ==
    /\ c.no_bank => ~IndustryHas(r, <<"yin", "hang">>)
    /\ c.no_broker => ~(IndustryHas(r, <<"zheng", "quan">>) \/ IndustryHas(r, <<"quan", "shang">>))
    /\ c.no_insurance => ~IndustryHas(r, <<"bao", "xian">>)
    /\ c.no_real_estate => ~(IndustryHas(r, <<"fang", "di", "chan">>) \/ IndustryHas(r, <<"di", "chan">>))
    /\ r.pe_ttm # Null /\ 0 < Val(r.pe_ttm) /\ Val(r.pe_ttm) < c.pe_max
    /\ r.pb # Null /\ 0 < Val(r.pb) /\ Val(r.pb) < c.pb_max
    /\ r.turnover_rate # Null /\ Val(r.turnover_rate) > c.turnover_min

FirstReturn == pc = "fs_done" /\ round = 1

NoDuplicateCodes(rows) ==
    \A a, b \in 1..Len(rows) : a # b => rows[a].ts_code # rows[b].ts_code

\* the rows returned are rows of the dataset, each once, each satisfying every
\* enabled industry exclusion and the P/E, P/B and turnover ranges; every such
\* row is returned when the recency exclusion is off, or when it is listed
\* before the cutoff
ConjunctionOfListedPredicates ==
    (FirstReturn /\ ~NeedsEnrichment(crit)) =>
        /\ out.kind = "return"
        /\ \A r \in SeqSet(out.frame.rows) :
              /\ r \in SeqSet(df.rows)
              /\ PassesListed(r, crit)
              /\ ~IsNull(r.pe_ttm) /\ Val(r.pe_ttm) > 0
              /\ ~IsNull(r.pb) /\ Val(r.pb) > 0
        /\ NoDuplicateCodes(out.frame.rows)
        /\ \A r \in SeqSet(df.rows) :
              (PassesListed(r, crit) /\ (crit.no_new => ListedBeforeCutoff(r)))
                  => r \in SeqSet(out.frame.rows)

\* C5: without ROE / dividend threshold, filter_stocks returns exactly the
\* rows of the dataset that satisfy all active predicates: every enabled
\* industry exclusion does not match (a null industry is kept), 0 < P/E <
\* pe_max, 0 < P/B < pb_max and turnover > turnover_min with all of them
\* present, and, with the recency exclusion on, a listing date that is
\* missing or before the cutoff; no identifier is new, none is returned twice
C5_FilterIsConjunction ==
    (FirstReturn /\ ~NeedsEnrichment(crit)) =>
        /\ out.kind = "return"
        /\ NoDuplicateCodes(out.frame.rows)
        /\ \A r \in SeqSet(out.frame.rows) : r \in SeqSet(df.rows)
        /\ \A r \in SeqSet(df.rows) :
              r \in SeqSet(out.frame.rows)
                  <=> /\ PassesListed(r, crit)
                      /\ crit.no_new => (IsNull(r.list_date) \/ ListedBeforeCutoff(r))

\* C6: with the recency exclusion on, a row that passes the other predicates
\* is returned exactly when its listing date is missing or strictly before
\* (run date - 365 days)
C6_RecencyKeepsMissing ==
    (FirstReturn /\ ~NeedsEnrichment(crit) /\ crit.no_new /\ out.kind = "return") =>
        \A r \in SeqSet(df.rows) :
            PassesListed(r, crit) =>
                (r \in SeqSet(out.frame.rows)
                    <=> (IsNull(r.list_date) \/ ListedBeforeCutoff(r)))

\* the part of C6 about rows whose listing date is known
RecencyOnKnownDates ==
    (FirstReturn /\ ~NeedsEnrichment(crit) /\ crit.no_new /\ out.kind = "return") =>
        \A r \in SeqSet(df.rows) :
            (PassesListed(r, crit) /\ ~IsNull(r.list_date)) =>
                (r \in SeqSet(out.frame.rows) <=> ListedBeforeCutoff(r))

PositionIn(rows, code) == CHOOSE k \in 1..Len(rows) : rows[k].ts_code = code

AscendingByPe(rows) ==
    \A k \in 1..(Len(rows) - 1) : Val(rows[k].pe_ttm) <= Val(rows[k + 1].pe_ttm)

\* C8: the returned rows are in ascending P/E order, and rows with equal P/E
\* keep the relative order they had in the input dataset
C8_StableAscendingSort ==
    (FirstReturn /\ ~NeedsEnrichment(crit) /\ out.kind = "return") =>
        /\ AscendingByPe(out.frame.rows)
        /\ \A a, b \in 1..Len(out.frame.rows) :
              (a < b /\ out.frame.rows[a].pe_ttm = out.frame.rows[b].pe_ttm) =>
                  PositionIn(df.rows, out.frame.rows[a].ts_code)
                      < PositionIn(df.rows, out.frame.rows[b].ts_code)

\* the part of C8 about the order of the keys
SortedAscending ==
    (pc = "fs_done" /\ out.kind = "return") => AscendingByPe(out.frame.rows)

----------------------------------------------------------------------------
(* SpecEnrich: filter_stocks with a ROE or dividend threshold *)

\* rows of a dataset handed to filter_stocks in SpecEnrich
MaxEnrichRows == 3

\* records in the provider's table
MaxRecs == 2

\* reporting periods 2023-12-31 and 2024-06-30
EndDates == { Some(StrfYmd(19722)), Some(StrfYmd(19904)) }

Record(code, roe, end_date) == [ts_code |-> code, roe |-> roe, end_date |-> end_date]

Tables(codes, roes, maxlen) ==
    UNION { [1..n -> { Record(c, v, e) : c \in codes, v \in roes, e \in EndDates }] :
              n \in 0..maxlen }

\* rows that pass the predicate chain, with P/E falling from the first row
\* to the last (so the ranking reverses them) and a dividend yield that is
\* missing or 4
EnrichDataset(dvs) ==
    Dataset([k \in 1..Len(dvs) |->
                Shape(Software, Some(StrfYmd(19722)), Some(Len(dvs) - k + 1),
                      Some(1), Some(6), dvs[k])])

EnrichDatasets ==
    UNION { { EnrichDataset(dvs) : dvs \in [1..n -> {Null, Some(4)}] } :
              n \in 0..MaxEnrichRows }

EnrichCriteria ==
    { Criteria(MaxEnrichRows + 2, 2, 5, t[1], t[2], [k \in 1..5 |-> FALSE]) :
        t \in { <<5, 0>>, <<0, 3>>, <<5, 3>> } }

EnrichProviders ==
    { [table |-> t, failing |-> f, leak |-> l] :
        t \in Tables(1..MaxEnrichRows, {Null, Some(8)}, MaxRecs),
        f \in SUBSET {1, MaxEnrichRows},
        l \in { {}, {1} } }

InitEnrich ==
    \E d \in EnrichDatasets, c \in EnrichCriteria,
       p \in EnrichProviders :
        InitCall("fs_call", d, c, 20089, p)

NextEnrich == FsEnter \/ FsFetchBatch \/ FsMerge \/ FsThreshold \/ FsSort \/ Reapply

SpecEnrich == InitEnrich /\ [][NextEnrich]_vars

----------------------------------------------------------------------------
(* Properties of the enrichment join in filter_stocks (SpecEnrich) *)

\* the rows that enter the enrichment of the first application
BaseRows == FilterChain(df.rows, crit, now)
BaseCodes == Codes(BaseRows)

\* the offsets of the batches: range(0, len(codes), 100)
Offsets == { o \in 0..Len(BaseCodes) : o < Len(BaseCodes) /\ o % BatchSize = 0 }
BatchAt(o) == Slice(BaseCodes, o, BatchSize)
AnswerAt(o) == FinaIndicator(provider, BatchAt(o))

\* the batches whose fetch was issued and answered: the loop of filter_stocks
\* ends at the first batch whose fetch raises
Answered == { o \in Offsets : \A b \in Offsets : b <= o => ~AnswerAt(b).raised }

\* the records the fetch returned for a code during the call
ReturnedFor(code) ==
    UNION { { rec \in SeqSet(AnswerAt(o).records) : rec.ts_code = code } :
              o \in Answered }

\* the value(s) of the record(s) with the latest period end-date
LatestValues(code) ==
    { rec.roe : rec \in { a \in ReturnedFor(code) :
                            \A b \in ReturnedFor(code) :
                                ParseYmd(Val(b.end_date)) <= ParseYmd(Val(a.end_date)) } }

RowsOf(frame, code) == { k \in 1..Len(frame.rows) : frame.rows[k].ts_code = code }

\* the enrichment stage of the first application has just ended
Enriched == pc = "fs_threshold" /\ round = 1

\* C1: for a provider that answers for the codes asked only, when the fetch
\* of a batch raises, the codes of that batch get a null ROE and every code of
\* the other batches gets its resolved value where the provider returned one
C1_BatchFailureIsolated ==
    (Enriched /\ provider.leak = {}) =>
        \A o \in Offsets : \A code \in SeqSet(BatchAt(o)) :
            /\ RowsOf(result, code) # {}
            /\ \A k \in RowsOf(result, code) :
                  IF AnswerAt(o).raised
                  THEN result.rows[k].roe = Null
                  ELSE ReturnedFor(code) # {} =>
                          result.rows[k].roe \in LatestValues(code)

\* C2: filter_stocks with an active threshold returns a frame, whatever the
\* fetch of each batch does
C2_EnrichmentNeverRaises ==
    (pc = "fs_done" /\ round = 1 /\ NeedsEnrichment(crit)) => out.kind = "return"

\* C3: a code for which the fetch returned records has exactly one row after
\* the join, and its ROE is that of the record with the latest end-date
C3_LatestPeriodResolved ==
    Enriched =>
        \A code \in SeqSet(BaseCodes) :
            ReturnedFor(code) # {} =>
                /\ Cardinality(RowsOf(result, code)) = 1
                /\ \A k \in RowsOf(result, code) :
                      result.rows[k].roe \in LatestValues(code)

\* the part of C3 that does not meet a raising batch or an answer for codes
\* that were not asked
LatestPeriodWhenAllBatchesAnswer ==
    (Enriched /\ provider.leak = {} /\ provider.failing = {}) =>
        \A code \in SeqSet(BaseCodes) :
            ReturnedFor(code) # {} =>
                /\ Cardinality(RowsOf(result, code)) = 1
                /\ \A k \in RowsOf(result, code) :
                      result.rows[k].roe \in LatestValues(code)

\* C4: the join keeps every base identifier exactly once, in place, with a
\* null ROE where nothing was resolved
C4_LeftJoinKeepsIdentifiers ==
    Enriched =>
        /\ Codes(result.rows) = BaseCodes
        /\ \A k \in 1..Len(result.rows) :
              ReturnedFor(result.rows[k].ts_code) = {} => result.rows[k].roe = Null

\* C7: for a provider that answers for the codes asked only, filter_stocks
\* applied to its own output with the same arguments and the same provider
\* completes and returns the same rows in the same order
C7_Idempotent ==
    (pc = "fs_done" /\ round = 2 /\ provider.leak = {}) =>
        /\ out.kind = "return"
        /\ Codes(out.frame.rows) = Codes(first.frame.rows)

----------------------------------------------------------------------------
(* SpecTop3: show_top3 called on a snapshot *)

\* rows of a dataset handed to show_top3
MaxTopRows == 4

\* P/E of row k: 4, 7, 3, 6, 2, 5 -- distinct and not in row order
PeAt(k) == ((3 * k) % 7) + 1

\* row k is "plain" (P/B 2, no dividend yield) or a "payer" (P/B 1, a yield of
\* 5 or 4); the row 'dear', if any, has a P/E of 20, outside the base mask
TopDataset(kinds, dear) ==
    Dataset([k \in 1..Len(kinds) |->
                Shape(Software, Some(StrfYmd(19722)),
                      IF k = dear THEN Some(20) ELSE Some(PeAt(k)),
                      IF kinds[k] = "payer" THEN Some(1) ELSE Some(2),
                      Some(6),
                      IF kinds[k] = "payer" THEN Some(4 + (k % 2)) ELSE Null)])

TopDatasets(n) ==
    { TopDataset(kinds, dear) : kinds \in [1..n -> {"plain", "payer"}], dear \in {0, 1, n} }

\* the provider holds at most one record per code: none, or an ROE of 3 or 8,
\* the same for every second code; the fetch of the batch of code 1 may
\* raise, or the record of code 1 may come back with every batch
TopTable(n, pattern) ==
    LET F[k \in 0..n] ==
            IF k = 0 THEN <<>>
            ELSE IF pattern[k % 2] = "none" THEN F[k - 1]
                 ELSE Append(F[k - 1], Record(k, pattern[k % 2], Some(StrfYmd(19904))))
    IN  F[n]

TopProviders(n) ==
    { [table |-> TopTable(n, pattern), failing |-> fl[1], leak |-> fl[2]] :
        pattern \in [0..1 -> {"none", Some(3), Some(8)}],
        fl \in { <<{}, {}>>, <<{1}, {}>>, <<{}, {1}>> } }

InitTop3 ==
    \E n \in 0..MaxTopRows :
        \E d \in TopDatasets(n), p \in TopProviders(n) :
            InitCall("t3_call", d, Criteria(0, 0, 0, 0, 0, [k \in 1..5 |-> FALSE]), 20089, p)

NextTop3 == T3Enter \/ T3FetchBatch \/ T3Report

SpecTop3 == InitTop3 /\ [][NextTop3]_vars

----------------------------------------------------------------------------
(* SpecTop3: the five slices *)

\* show_top3 went through the join, the mask and the five slices
T3Returned == pc = "t3_done" /\ out.kind = "return" /\ Len(df.rows) > 0

InBaseRange(r) ==
    /\ Gt(r.pe_ttm, 0) /\ Lt(r.pe_ttm, 20)
    /\ Gt(r.pb, 0) /\ Lt(r.pb, 3)
    /\ Gt(r.turnover_rate, 5)

\* the batch a code was asked in, and the ROE the enrichment gives it
TopBatchOf(code) ==
    LET codes == Codes(df.rows)
        o == CHOOSE b \in 0..Len(codes) : b % BatchSize = 0 /\ code \in SeqSet(Slice(codes, b, BatchSize))
    IN  Slice(codes, o, BatchSize)

TopRoeOf(code) ==
    LET answer == FinaIndicator(provider, TopBatchOf(code))
        mine == { rec \in SeqSet(answer.records) : rec.ts_code = code }
    IN  IF answer.raised \/ mine = {} THEN {Null} ELSE { rec.roe : rec \in mine }

\* the key a slice ranks by
RankKey(r, col) ==
    IF col = "score" THEN Some(FillNa0(r.roe) + FillNa0(r.dv_ratio)) ELSE r[col]

\* row a ranks strictly above row b: a null key is below every value
RanksAbove(a, b, col, largest) ==
    LET ka == RankKey(a, col)
        kb == RankKey(b, col)
    IN  \/ ~IsNull(ka) /\ IsNull(kb)
        \/ /\ ~IsNull(ka)
           /\ ~IsNull(kb)
           /\ IF largest THEN Val(ka) > Val(kb) ELSE Val(ka) < Val(kb)

\* the positions of the three rows that rank first, a tie going to the
\* earlier row
Chosen(eligible, col, largest) ==
    LET Ahead(m) == { j \in 1..Len(eligible) :
                        \/ RanksAbove(eligible[j], eligible[m], col, largest)
                        \/ /\ RankKey(eligible[j], col) = RankKey(eligible[m], col)
                           /\ j < m }
    IN  { k \in 1..Len(eligible) : Cardinality(Ahead(k)) < 3 }

\* the slice is the chosen rows, each once, best first
SliceIsTop(slice, eligible, col, largest) ==
    LET chosen == Chosen(eligible, col, largest)
    IN  /\ Len(slice) = IF Len(eligible) < 3 THEN Len(eligible) ELSE 3
        /\ \E at \in [1..Len(slice) -> chosen] :
               /\ \A a, b \in 1..Len(slice) : a # b => at[a] # at[b]
               /\ \A k \in 1..Len(slice) : \A f \in DOMAIN eligible[at[k]] :
                      slice[k][f] = eligible[at[k]][f]
        /\ \A a, b \in 1..Len(slice) : a < b => ~RanksAbove(slice[b], slice[a], col, largest)

HasRoeCell(r) == ~IsNull(r.roe)

----------------------------------------------------------------------------
(* get_token, fetch_data, main *)

Whitespace == {" ", "\t"}

\* str.strip()
RECURSIVE LStrip(_)
LStrip(s) == IF s # <<>> /\ Head(s) \in Whitespace THEN LStrip(Tail(s)) ELSE s

RECURSIVE RStrip(_)
RStrip(s) ==
    IF s # <<>> /\ s[Len(s)] \in Whitespace THEN RStrip(SubSeq(s, 1, Len(s) - 1)) ELSE s

Strip(s) == RStrip(LStrip(s))

\* str.startswith(prefix)
StartsWith(s, prefix) == Len(s) >= Len(prefix) /\ SubSeq(s, 1, Len(prefix)) = prefix

\* str.splitlines(): a trailing newline opens no further line
RECURSIVE SplitRest(_, _, _, _)
SplitRest(text, done, cur, open) ==
    IF text = <<>> THEN (IF open THEN Append(done, cur) ELSE done)
    ELSE IF Head(text) = "\n" THEN SplitRest(Tail(text), Append(done, cur), <<>>, FALSE)
    ELSE SplitRest(Tail(text), done, Append(cur, Head(text)), TRUE)

SplitLines(text) == SplitRest(text, <<>>, <<>>, FALSE)

\* line.split('=', 1)[1] for a line that holds an '='
AfterEquals(line) ==
    LET eq == CHOOSE k \in 1..Len(line) :
                  line[k] = "=" /\ \A j \in 1..(k - 1) : line[j] # "="
    IN  SubSeq(line, eq + 1, Len(line))

\* 'TUSHARE_TOKEN='
TokenPrefix == <<"T", "U", "S", "H", "A", "R", "E", "_", "T", "O", "K", "E", "N", "=">>

\* a get_token that returns the value of the line as it stands
GetTokenUnstripped(e) ==
    IF ~IsNull(e.environ) /\ Val(e.environ) # <<>>
    THEN [raised |-> FALSE, token |-> Val(e.environ)]
    ELSE IF ~e.file.exists THEN [raised |-> FALSE, token |-> <<>>]
    ELSE IF ~e.file.readable THEN [raised |-> TRUE, token |-> <<>>]
    ELSE LET lines == SplitLines(e.file.text)
             hits == { k \in 1..Len(lines) : StartsWith(lines[k], TokenPrefix) }
         IN  IF hits = {} THEN [raised |-> FALSE, token |-> <<>>]
             ELSE LET k == CHOOSE h \in hits : \A j \in hits : h <= j
                  IN  [raised |-> FALSE, token |-> AfterEquals(lines[k])]

\* get_token(): the environment variable, then the first TUSHARE_TOKEN= line
\* of ~/.aj-skills/.env; read_text() raises on a file that cannot be read
GetToken(e) ==
    IF ~IsNull(e.environ) /\ Val(e.environ) # <<>>
    THEN [raised |-> FALSE, token |-> Val(e.environ)]
    ELSE IF ~e.file.exists THEN [raised |-> FALSE, token |-> <<>>]
    ELSE IF ~e.file.readable THEN [raised |-> TRUE, token |-> <<>>]
    ELSE LET lines == SplitLines(e.file.text)
             hits == { k \in 1..Len(lines) : StartsWith(lines[k], TokenPrefix) }
         IN  IF hits = {} THEN [raised |-> FALSE, token |-> <<>>]
             ELSE LET k == CHOOSE h \in hits : \A j \in hits : h <= j
                  IN  [raised |-> FALSE, token |-> Strip(AfterEquals(lines[k]))]

\* 'ST|退' on the name, and the '.BJ' / '.KCB' endings of the code
PatSpecialTreatment == { <<"S", "T">>, <<"tui">> }
ExcludedBoards == { ".BJ", ".KCB" }

\* fetch_data: trade_cal (with the fallback query when no recent day is
\* open; iloc[-1] raises on an empty calendar), daily_basic joined with
\* stock_basic, then the name and board filters
FetchData(market) ==
    IF market.down \/ (~market.recent_open /\ ~market.history_open)
    THEN [raised |-> TRUE, frame |-> EmptyFrame]
    ELSE LET coded == [k \in 1..Len(market.rows) |->
                          [code |-> k, name |-> market.rows[k].name,
                           board |-> market.rows[k].board, shape |-> market.rows[k].shape]]
             Kept(r) == ~StrContains(r.name, PatSpecialTreatment)
                        /\ r.board \notin ExcludedBoards
             kept == SelectSeq(coded, Kept)
         IN  [raised |-> FALSE,
              frame |-> [cols |-> "none",
                         rows |-> [k \in 1..Len(kept) |-> Row(kept[k].code, kept[k].shape)]]]

\* lines 321-331: the token, or exit(1) before anything else
MainStart ==
    /\ mainpc = "start"
    /\ LET got == IF env.arg # <<>> THEN [raised |-> FALSE, token |-> env.arg]
                  ELSE GetToken(env)
       IN  /\ token' = got.token
           /\ IF got.raised \/ got.token = <<>>
              THEN mainpc' = "exit" /\ exitcode' = 1
              ELSE mainpc' = "fetch" /\ UNCHANGED exitcode
    /\ UNCHANGED <<pc, now, df, crit, provider, result, i, all_roe, out, first, round,
                   slices, env, log>>

\* lines 339-344: the snapshot, or exit(1) when it is empty; an exception of
\* fetch_data ends the run with a traceback and status 1
MainFetch ==
    /\ mainpc = "fetch"
    /\ log' = Logged(log, "fetch")
    /\ LET fetched == FetchData(env.market)
       IN  IF fetched.raised \/ Len(fetched.frame.rows) = 0
           THEN mainpc' = "exit" /\ exitcode' = 1 /\ UNCHANGED df
           ELSE mainpc' = "dispatch" /\ df' = fetched.frame /\ UNCHANGED exitcode
    /\ UNCHANGED <<pc, now, crit, provider, result, i, all_roe, out, first, round, slices,
                   env, token>>

\* lines 347-377: show_top3, or filter_stocks with every exclusion on unless
\* --include-all was given
MainDispatch ==
    /\ mainpc = "dispatch"
    /\ mainpc' = "call"
    /\ IF env.top3
       THEN pc' = "t3_call" /\ UNCHANGED crit
       ELSE /\ pc' = "fs_call"
            /\ crit' = Criteria(env.pe, env.pb, env.turnover, env.roe, env.dividend,
                                [k \in 1..5 |-> ~env.include_all])
    /\ UNCHANGED <<now, df, provider, result, i, all_roe, out, first, round, slices, env,
                   token, log, exitcode>>

\* lines 349 and 379-403: after show_top3 the run is over; after
\* filter_stocks come head(limit), the listing (formatting a None ROE with
\* ':4.1f' raises TypeError) and save_to_github
MainFinish ==
    /\ mainpc = "call"
    /\ pc \in {"fs_done", "t3_done"}
    /\ mainpc' = "exit"
    /\ IF out.kind = "raise"
       THEN exitcode' = 1 /\ UNCHANGED <<result, log>>
       ELSE IF env.top3
       THEN exitcode' = 0 /\ UNCHANGED <<result, log>>
       ELSE LET shown == [cols |-> out.frame.cols, rows |-> Take(out.frame.rows, env.limit)]
            IN  /\ result' = shown
                /\ IF shown.cols = "roe_obj" /\ Len(shown.rows) > 0
                   THEN exitcode' = 1 /\ UNCHANGED log
                   ELSE IF env.save /\ env.github # "unset"
                   THEN /\ log' = Logged(log, "publish")
                        /\ exitcode' = IF env.github = "error" THEN 1 ELSE 0
                   ELSE exitcode' = 0 /\ UNCHANGED log
    /\ UNCHANGED <<pc, now, df, crit, provider, i, all_roe, out, first, round, slices, env,
                   token>>

----------------------------------------------------------------------------
(* SpecMain: one run of main *)

\* lines of the .env file, and rows of the provider's daily snapshot
MaxLines == 2
MaxMainRows == 2

EnvLines ==
    { TokenPrefix \o <<"f">>,       \* TUSHARE_TOKEN=f
      TokenPrefix \o <<" ">>,       \* TUSHARE_TOKEN= followed by a blank
      <<"X", "=", "1">> }

RECURSIVE JoinLines(_)
JoinLines(ls) == IF ls = <<>> THEN <<>> ELSE Head(ls) \o <<"\n">> \o JoinLines(Tail(ls))

EnvFiles ==
    { NoFile, [exists |-> TRUE, readable |-> FALSE, text |-> <<>>] }
    \cup { [exists |-> TRUE, readable |-> TRUE, text |-> JoinLines(ls)] :
             ls \in UNION { [1..n -> EnvLines] : n \in 0..MaxLines } }

Credentials ==
    { [arg |-> a, environ |-> e, file |-> f] :
        a \in { <<>>, <<"k">> }, e \in { Null, Some(<<>>), Some(<<"e">>) }, f \in EnvFiles }

ArgCredential == [arg |-> <<"k">>, environ |-> Null, file |-> NoFile]

\* 平安 (kept), *ST 安 (special treatment), a Beijing-board code, and a code
\* that stock_basic does not list (no name, industry or listing date)
RawRows ==
    { [name |-> Some(<<"ping", "an">>), board |-> ".SZ",
       shape |-> Shape(Software, Some(StrfYmd(19722)), Some(1), Some(1), Some(6), Some(4))],
      [name |-> Some(<<"*", "S", "T", "an">>), board |-> ".SZ",
       shape |-> Shape(Software, Some(StrfYmd(19722)), Some(1), Some(1), Some(6), Some(4))],
      [name |-> Some(<<"ping", "an">>), board |-> ".BJ",
       shape |-> Shape(Software, Some(StrfYmd(19722)), Some(1), Some(1), Some(6), Some(4))],
      [name |-> Null, board |-> ".SH",
       shape |-> Shape(Null, Null, Some(2), Some(1), Some(6), Null)] }

Markets(maxrows) ==
    { [down |-> d, recent_open |-> c[1], history_open |-> c[2], rows |-> rows] :
        d \in BOOLEAN, c \in { <<TRUE, TRUE>>, <<FALSE, TRUE>>, <<FALSE, FALSE>> },
        rows \in UNION { [1..n -> RawRows] : n \in 0..maxrows } }

OpenMarkets(maxrows) ==
    { m \in Markets(maxrows) : ~m.down /\ m.recent_open /\ m.history_open }

\* --top3, --include-all, --save with the state of GITHUB_TOKEN and of the
\* upload, --limit, and the (--roe, --dividend) thresholds; --pe 3, --pb 2
\* and --turnover 0.5 throughout
Options ==
    { [top3 |-> t, include_all |-> a, save |-> s[1], github |-> s[2], limit |-> l,
       roe |-> th[1], dividend |-> th[2]] :
        t \in BOOLEAN, a \in BOOLEAN,
        s \in { <<FALSE, "unset">>, <<TRUE, "unset">>, <<TRUE, "ok">>,
                <<TRUE, "rejected">>, <<TRUE, "error">> },
        l \in {1, 30},
        th \in { <<0, 0>>, <<5, 0>>, <<0, 3>> } }

PlainOptions ==
    { o \in Options : ~o.include_all /\ ~o.save /\ o.limit = 30 /\ o.roe = 0 /\ o.dividend = 0 }

MainProviders ==
    { NoProvider,
      [table |-> <<Record(1, Some(8), Some(StrfYmd(19904)))>>, failing |-> {}, leak |-> {}],
      [table |-> <<Record(1, Some(8), Some(StrfYmd(19904)))>>, failing |-> {1}, leak |-> {}] }

Env(c, o, m) ==
    [arg |-> c.arg, environ |-> c.environ, file |-> c.file, top3 |-> o.top3,
     include_all |-> o.include_all, save |-> o.save, github |-> o.github, limit |-> o.limit,
     pe |-> 3, pb |-> 2, turnover |-> 5, roe |-> o.roe, dividend |-> o.dividend,
     market |-> m]

InitRun(e, p) ==
    /\ mainpc = "start"
    /\ pc = "idle"
    /\ now = 20089
    /\ df = EmptyFrame
    /\ crit = Criteria(0, 0, 0, 0, 0, [k \in 1..5 |-> FALSE])
    /\ provider = p
    /\ result = EmptyFrame
    /\ i = 0
    /\ all_roe = <<>>
    /\ out = NoOut
    /\ first = NoOut
    /\ round = 1
    /\ slices = NoSlices
    /\ env = e
    /\ token = <<>>
    /\ log = <<>>
    /\ exitcode = -1

\* every source of the credential against small snapshots, and every option
\* and provider against a credential given as argument
InitMain ==
    \/ \E c \in Credentials, o \in PlainOptions, m \in Markets(1) :
           InitRun(Env(c, o, m), NoProvider)
    \/ \E o \in Options, m \in OpenMarkets(MaxMainRows), p \in MainProviders :
           InitRun(Env(ArgCredential, o, m), p)

NextMain ==
    \/ MainStart \/ MainFetch \/ MainDispatch \/ MainFinish
    \/ FsEnter \/ FsFetchBatch \/ FsMerge \/ FsThreshold \/ FsSort
    \/ T3Enter \/ T3FetchBatch \/ T3Report

SpecMain == InitMain /\ [][NextMain]_vars

\* a line of the file carries a credential: the prefix, then a character
\* that is not blank
CarriesToken(line) ==
    /\ StartsWith(line, TokenPrefix)
    /\ \E k \in (Len(TokenPrefix) + 1)..Len(line) : line[k] \notin Whitespace

NoCredential ==
    /\ env.arg = <<>>
    /\ IsNull(env.environ) \/ Val(env.environ) = <<>>
    /\ \/ ~env.file.exists
       \/ ~env.file.readable
       \/ \A line \in SeqSet(SplitLines(env.file.text)) : ~CarriesToken(line)

FetchFailed ==
    \/ FetchData(env.market).raised
    \/ Len(FetchData(env.market).frame.rows) = 0

\* C10: with no credential in argument, environment or file the run ends with
\* a non-zero status before any stage, the fetch included, is started; with a
\* failed or empty snapshot fetch it ends with a non-zero status and no
\* filter, enrichment, report or publish stage is ever started
C10_MandatoryFailuresFatal ==
    /\ NoCredential =>
           /\ log = <<>>
           /\ pc = "idle"
           /\ mainpc \in {"start", "exit"}
           /\ mainpc = "exit" => exitcode # 0
    /\ FetchFailed =>
           /\ SeqSet(log) \subseteq {"fetch"}
           /\ pc = "idle"
           /\ mainpc \in {"start", "fetch", "exit"}
           /\ mainpc = "exit" => exitcode # 0

\* the credential came from the file, the fetch answered, every row of the
\* snapshot was screened out by fetch_data, and the run ended
C10_Witness ==
    /\ mainpc = "exit"
    /\ exitcode = 1
    /\ log = <<"fetch">>
    /\ env.arg = <<>>
    /\ IsNull(env.environ)
    /\ token # <<>>
    /\ ~FetchData(env.market).raised
    /\ Len(env.market.rows) > 0

====
